---- MODULE Spec2Model ----
(***************************************************************************)
(* Model of the SSH config reader/writer of the SSH Manager application    *)
(* (main process: parseSSHConfig, generateSSHConfig, the ssh:loadConnections *)
(* and ssh:saveConnections handlers; renderer: the SSHConnections          *)
(* component).                                                             *)
(*                                                                         *)
(* A JavaScript string is a sequence of one-character strings, so that     *)
(* split, trim, toLowerCase, startsWith, includes, replace, parseInt and   *)
(* template formatting are computed character by character.                *)
(***************************************************************************)
EXTENDS Integers, Sequences, FiniteSets

VARIABLES
    content,        \* pure-function harness: the text given to parse / generate
    hosts,          \* pure-function harness: the host sequence given to generate
    fnpc,           \* pure-function harness: which call has run
    parsed,         \* result of parseSSHConfig(content)
    generated,      \* result of generateSSHConfig(hosts, content)
    regenerated,    \* result of generateSSHConfig(hosts, generated)
    reparsed,       \* result of parseSSHConfig(generated)
    file,           \* ~/.ssh/config on disk: [exists, content]
    connections,    \* SSHConnections: the connections state (the working set)
    isLoading,      \* SSHConnections: the isLoading state
    isAddModalOpen, \* SSHConnections: the isAddModalOpen state
    load,           \* the ssh:loadConnections call of the mounted component
    saves,          \* the ssh:saveConnections calls, in the order they were made
    now,            \* the last value Date.now() returned
    rules,          \* PortForwarding: the rules state
    forwards,       \* the start and stop calls of the PortForwarding handlers in flight
    processes,      \* pids of the processes ssh:startPortForward spawned, still running
    nextPid         \* the pid the operating system gives the next process

fnvars == <<content, hosts, fnpc, parsed, generated, regenerated, reparsed>>
appvars == <<file, connections, isLoading, isAddModalOpen, load, saves, now>>
fwdvars == <<rules, forwards, processes, nextPid>>
vars == <<fnvars, appvars, fwdvars>>

----------------------------------------------------------------------------
(* JavaScript string primitives                                            *)

\* The characters String.prototype.trim and the regular expression \s remove.
WhiteSpace == {" ", "\t", "\r", "\f", "\n"}

LowerOf ==
    [A |-> "a", B |-> "b", C |-> "c", D |-> "d", E |-> "e", F |-> "f", G |-> "g",
     H |-> "h", I |-> "i", J |-> "j", K |-> "k", L |-> "l", M |-> "m", N |-> "n",
     O |-> "o", P |-> "p", Q |-> "q", R |-> "r", S |-> "s", T |-> "t", U |-> "u",
     V |-> "v", W |-> "w", X |-> "x", Y |-> "y", Z |-> "z"]

toLowerCase(s) ==
    [i \in 1..Len(s) |-> IF s[i] \in DOMAIN LowerOf THEN LowerOf[s[i]] ELSE s[i]]

MinOf(S) == CHOOSE i \in S : \A j \in S : i <= j
MaxOf(S) == CHOOSE i \in S : \A j \in S : i >= j

trim(s) ==
    LET keep == {i \in 1..Len(s) : s[i] \notin WhiteSpace}
    IN  IF keep = {} THEN <<>> ELSE SubSeq(s, MinOf(keep), MaxOf(keep))

startsWith(s, p) == Len(s) >= Len(p) /\ SubSeq(s, 1, Len(p)) = p

\* The start positions of p in s.
Occurrences(s, p) ==
    {i \in 1..(Len(s) - Len(p) + 1) : SubSeq(s, i, i + Len(p) - 1) = p}

includes(s, p) == Occurrences(s, p) # {}

\* s.replace(p, r) with a string pattern: the first occurrence only.
replace(s, p, r) ==
    IF Occurrences(s, p) = {} THEN s
    ELSE LET i == MinOf(Occurrences(s, p))
         IN  SubSeq(s, 1, i - 1) \o r \o SubSeq(s, i + Len(p), Len(s))

\* s.substring(n), n counted from 0.
substring(s, n) == SubSeq(s, n + 1, Len(s))

\* s.split('\n')
RECURSIVE split(_)
split(s) ==
    LET nl == {i \in 1..Len(s) : s[i] = "\n"}
    IN  IF nl = {} THEN <<s>>
        ELSE <<SubSeq(s, 1, MinOf(nl) - 1)>> \o split(SubSeq(s, MinOf(nl) + 1, Len(s)))

\* s.split(/\s+/)
RECURSIVE splitWhitespace(_)
splitWhitespace(s) ==
    LET ws == {i \in 1..Len(s) : s[i] \in WhiteSpace}
    IN  IF ws = {} THEN <<s>>
        ELSE LET b == MinOf(ws)
                 rest == {i \in b..Len(s) : s[i] \notin WhiteSpace}
                 e == IF rest = {} THEN Len(s) + 1 ELSE MinOf(rest)
             IN  <<SubSeq(s, 1, b - 1)>> \o splitWhitespace(SubSeq(s, e, Len(s)))

\* parts.join(sep)
RECURSIVE join(_, _)
join(parts, sep) ==
    IF Len(parts) = 0 THEN <<>>
    ELSE IF Len(parts) = 1 THEN parts[1]
    ELSE parts[1] \o sep \o join(Tail(parts), sep)

DigitChars == <<"0", "1", "2", "3", "4", "5", "6", "7", "8", "9">>
HexChars == <<"a", "b", "c", "d", "e", "f">>

IsDigit(c, radix) ==
    \/ \E d \in 1..10 : DigitChars[d] = c
    \/ radix = 16 /\ \E d \in 1..6 : HexChars[d] = c

DigitVal(c) ==
    IF \E d \in 1..10 : DigitChars[d] = c
    THEN (CHOOSE d \in 1..10 : DigitChars[d] = c) - 1
    ELSE (CHOOSE d \in 1..6 : HexChars[d] = c) + 9

RECURSIVE DigitsValue(_, _, _)
DigitsValue(ds, radix, acc) ==
    IF Len(ds) = 0 THEN acc
    ELSE DigitsValue(Tail(ds), radix, acc * radix + DigitVal(ds[1]))

\* parseInt(s) without a radix: leading white space, an optional sign, an
\* optional 0x prefix, then the longest run of digits; NaN when there is none.
NaN == [nan |-> TRUE, val |-> 0]

parseInt(str) ==
    LET lead == {i \in 1..Len(str) : str[i] \notin WhiteSpace}
        s0 == IF lead = {} THEN <<>> ELSE SubSeq(str, MinOf(lead), Len(str))
        neg == Len(s0) > 0 /\ s0[1] = "-"
        s1 == IF Len(s0) > 0 /\ s0[1] \in {"-", "+"} THEN Tail(s0) ELSE s0
        hex == Len(s1) >= 2 /\ toLowerCase(SubSeq(s1, 1, 2)) = <<"0", "x">>
        radix == IF hex THEN 16 ELSE 10
        s2 == toLowerCase(IF hex THEN substring(s1, 2) ELSE s1)
        stop == {i \in 1..Len(s2) : ~IsDigit(s2[i], radix)}
        ds == IF stop = {} THEN s2 ELSE SubSeq(s2, 1, MinOf(stop) - 1)
    IN  IF Len(ds) = 0 THEN NaN
        ELSE [nan |-> FALSE,
              val |-> IF neg THEN 0 - DigitsValue(ds, radix, 0)
                      ELSE DigitsValue(ds, radix, 0)]

\* String(n) for an integer n, as a template literal formats it.
RECURSIVE numberToString(_)
numberToString(n) ==
    IF n < 0 THEN <<"-">> \o numberToString(0 - n)
    ELSE IF n < 10 THEN <<DigitChars[n + 1]>>
    ELSE numberToString(n \div 10) \o <<DigitChars[(n % 10) + 1]>>

----------------------------------------------------------------------------
(* Values                                                                  *)

\* JavaScript undefined, for an optional string; no string equals it.
Undefined == <<"undefined">>

\* JavaScript null, for the accumulator of parseSSHConfig.
Null == [null |-> TRUE]

\* A string in a boolean context: undefined and '' are falsy.
Truthy(s) == s # Undefined /\ s # <<>>

\* os.homedir()
homedir == <<"/", "h">>

\* interface SSHConfigHost
SSHConfigHost(id, name, hostname, user, port, identityFile) ==
    [id |-> id, name |-> name, hostname |-> hostname, user |-> user,
     port |-> port, identityFile |-> identityFile]

\* The {name, hostname, user, port, identityFile} tuple of a host entry.
HostTuple(h) == <<h.name, h.hostname, h.user, h.port, h.identityFile>>

----------------------------------------------------------------------------
(* parseSSHConfig                                                          *)

\* { name: value }: a fresh accumulator; port is <<>> while unset, <<n>> once set.
NewHost(value) ==
    [name |-> value, hostname |-> Undefined, user |-> Undefined,
     port |-> <<>>, identityFile |-> Undefined]

\* x || 22 for a number x: NaN and 0 are falsy.
PortOr22(p) == IF p.nan \/ p.val = 0 THEN 22 ELSE p.val

\* currentHost.port || 22 in the flush.
FlushPort(port) == IF port = <<>> \/ port[1] = 0 THEN 22 ELSE port[1]

\* FlushHost that puts the entry in front of the output sequence.
FlushHostInFront(hs, currentHost) ==
    IF currentHost # Null /\ Truthy(currentHost.name) /\ Truthy(currentHost.hostname)
    THEN <<SSHConfigHost(currentHost.name, currentHost.name,
                         currentHost.hostname,
                         IF Truthy(currentHost.user) THEN currentHost.user
                         ELSE <<"r", "o", "o", "t">>,
                         FlushPort(currentHost.port),
                         currentHost.identityFile)>> \o hs
    ELSE hs

\* FlushHost without the test for a hostname.
FlushHostNoHostname(hs, currentHost) ==
    IF currentHost # Null /\ Truthy(currentHost.name)
    THEN Append(hs, SSHConfigHost(currentHost.name, currentHost.name,
                                  currentHost.hostname,
                                  IF Truthy(currentHost.user) THEN currentHost.user
                                  ELSE <<"r", "o", "o", "t">>,
                                  FlushPort(currentHost.port),
                                  currentHost.identityFile))
    ELSE hs

\* "Save previous host if exists and has required fields", and the same block
\* after the loop.
FlushHost(hs, currentHost) ==
    IF currentHost # Null /\ Truthy(currentHost.name) /\ Truthy(currentHost.hostname)
    THEN Append(hs, SSHConfigHost(currentHost.name, currentHost.name,
                                  currentHost.hostname,
                                  IF Truthy(currentHost.user) THEN currentHost.user
                                  ELSE <<"r", "o", "o", "t">>,
                                  FlushPort(currentHost.port),
                                  currentHost.identityFile))
    ELSE hs

\* StartHost without the wildcard test.
StartHostAnyPattern(value) == IF Truthy(value) THEN NewHost(value) ELSE Null

\* "Start new host - skip wildcards like '*'"
StartHost(value) ==
    IF Truthy(value) /\ ~includes(value, <<"*">>) /\ ~includes(value, <<"?">>)
    THEN NewHost(value)
    ELSE Null

\* The switch on key for an attribute line under a pending accumulator.
SetAttribute(currentHost, key, value) ==
    IF key = <<"h", "o", "s", "t", "n", "a", "m", "e">>
    THEN [currentHost EXCEPT !.hostname = value]
    ELSE IF key = <<"u", "s", "e", "r">>
    THEN [currentHost EXCEPT !.user = value]
    ELSE IF key = <<"p", "o", "r", "t">>
    THEN [currentHost EXCEPT !.port = <<PortOr22(parseInt(value))>>]
    ELSE IF key = <<"i", "d", "e", "n", "t", "i", "t", "y", "f", "i", "l", "e">>
    THEN [currentHost EXCEPT !.identityFile =
              IF startsWith(value, <<"~">>) THEN replace(value, <<"~">>, homedir)
              ELSE value]
    ELSE currentHost

\* ParseLine for which a bare 'Host' keyword ends the pending entry.
ParseLineBareHostFlushes(st, line) ==
    LET trimmed == trim(line)
        parts == splitWhitespace(trimmed)
        key == toLowerCase(parts[1])
        value == join(Tail(parts), <<" ">>)
    IN  IF trimmed = <<>> \/ startsWith(trimmed, <<"#">>) THEN st
        ELSE IF key = <<"h", "o", "s", "t">>
        THEN [hosts |-> FlushHost(st.hosts, st.currentHost),
              currentHost |-> StartHost(value)]
        ELSE IF Len(parts) < 2 THEN st
        ELSE IF st.currentHost # Null
        THEN [st EXCEPT !.currentHost = SetAttribute(st.currentHost, key, value)]
        ELSE st

\* One iteration of the loop over the lines; st = [hosts, currentHost].
ParseLine(st, line) ==
    LET trimmed == trim(line)
        parts == splitWhitespace(trimmed)
        key == toLowerCase(parts[1])
        value == join(Tail(parts), <<" ">>)
    IN  IF trimmed = <<>> \/ startsWith(trimmed, <<"#">>) THEN st
        ELSE IF Len(parts) < 2 THEN st
        ELSE IF key = <<"h", "o", "s", "t">>
        THEN [hosts |-> FlushHost(st.hosts, st.currentHost),
              currentHost |-> StartHost(value)]
        ELSE IF st.currentHost # Null
        THEN [st EXCEPT !.currentHost = SetAttribute(st.currentHost, key, value)]
        ELSE st

RECURSIVE ParseLines(_, _, _)
ParseLines(lines, i, st) ==
    IF i > Len(lines) THEN st
    ELSE ParseLines(lines, i + 1, ParseLine(st, lines[i]))

parseSSHConfig(text) ==
    LET st == ParseLines(split(text), 1, [hosts |-> <<>>, currentHost |-> Null])
    IN  FlushHost(st.hosts, st.currentHost)

----------------------------------------------------------------------------
(* generateSSHConfig                                                       *)

KwHostSp == <<"h", "o", "s", "t", " ">>
KwHostname == <<"h", "o", "s", "t", "n", "a", "m", "e">>
KwUser == <<"u", "s", "e", "r">>
KwPort == <<"p", "o", "r", "t">>
KwIdentityfile == <<"i", "d", "e", "n", "t", "i", "t", "y", "f", "i", "l", "e">>
SshManager == <<"s", "s", "h", " ", "m", "a", "n", "a", "g", "e", "r">>
ManagedHosts == <<"m", "a", "n", "a", "g", "e", "d", " ", "h", "o", "s", "t", "s">>

\* SomeHostNamed that compares the names case-folded.
SomeHostNamedFolded(hs, hostName) ==
    \E k \in 1..Len(hs) : toLowerCase(hs[k].name) = toLowerCase(hostName)

\* hosts.some(h => h.name === hostName)
SomeHostNamed(hs, hostName) == \E k \in 1..Len(hs) : hs[k].name = hostName

\* line.trim().substring(5).trim()
HostNameOf(line) == trim(substring(trim(line), 5))

\* trimmed.includes('ssh manager') && trimmed.includes('managed hosts')
IsSentinel(trimmed) == includes(trimmed, SshManager) /\ includes(trimmed, ManagedHosts)

\* The condition of the "skip these lines" branch.
IsManagedAttribute(trimmed) ==
    \/ startsWith(trimmed, KwHostname)
    \/ startsWith(trimmed, KwUser)
    \/ startsWith(trimmed, KwPort)
    \/ startsWith(trimmed, KwIdentityfile)

\* The condition of the "new section starts" branch; it looks at the trimmed line.
IsNewSection(trimmed) ==
    \/ startsWith(trimmed, KwHostSp)
    \/ (/\ ~startsWith(trimmed, <<" ">>)
        /\ ~startsWith(trimmed, <<"\t">>)
        /\ trimmed # <<>>)

\* ScanLine that drops the sentinel line only and goes on scanning under it.
ScanLineSentinelOnly(st, line, hs) ==
    LET trimmed == toLowerCase(trim(line))
        collides == SomeHostNamed(hs, HostNameOf(line))
    IN  IF IsSentinel(trimmed) THEN st
        ELSE IF startsWith(trimmed, KwHostSp)
        THEN [st EXCEPT !.skipCurrentHost = collides,
                        !.preservedLines = IF collides THEN @ ELSE Append(@, line)]
        ELSE IF st.skipCurrentHost /\ IsManagedAttribute(trimmed)
        THEN st
        ELSE IF IsNewSection(trimmed)
        THEN [st EXCEPT !.skipCurrentHost = FALSE,
                        !.preservedLines = Append(@, line)]
        ELSE IF ~st.skipCurrentHost
        THEN [st EXCEPT !.preservedLines = Append(@, line)]
        ELSE st

\* ScanLine that tests for a new section before it tests for an attribute line
\* to drop.
ScanLineSectionFirst(st, line, hs) ==
    LET trimmed == toLowerCase(trim(line))
        collides == SomeHostNamed(hs, HostNameOf(line))
    IN  IF IsSentinel(trimmed)
        THEN [st EXCEPT !.currentlyInManagedSection = TRUE]
        ELSE IF st.currentlyInManagedSection THEN st
        ELSE IF startsWith(trimmed, KwHostSp)
        THEN [st EXCEPT !.skipCurrentHost = collides,
                        !.preservedLines = IF collides THEN @ ELSE Append(@, line)]
        ELSE IF IsNewSection(trimmed)
        THEN [st EXCEPT !.skipCurrentHost = FALSE,
                        !.preservedLines = Append(@, line)]
        ELSE IF ~st.skipCurrentHost
        THEN [st EXCEPT !.preservedLines = Append(@, line)]
        ELSE st

\* ScanLine whose skipCurrentHost, once set, is not cleared by a Host line that
\* does not collide.
ScanLineStickySkip(st, line, hs) ==
    LET trimmed == toLowerCase(trim(line))
        collides == SomeHostNamed(hs, HostNameOf(line))
    IN  IF IsSentinel(trimmed)
        THEN [st EXCEPT !.currentlyInManagedSection = TRUE]
        ELSE IF st.currentlyInManagedSection THEN st
        ELSE IF startsWith(trimmed, KwHostSp)
        THEN [st EXCEPT !.skipCurrentHost = @ \/ collides,
                        !.preservedLines = IF collides THEN @ ELSE Append(@, line)]
        ELSE IF st.skipCurrentHost /\ IsManagedAttribute(trimmed)
        THEN st
        ELSE IF IsNewSection(trimmed)
        THEN [st EXCEPT !.skipCurrentHost = FALSE,
                        !.preservedLines =
                            IF ~startsWith(trimmed, KwHostSp) \/ ~collides
                            THEN Append(@, line) ELSE @]
        ELSE IF ~st.skipCurrentHost
        THEN [st EXCEPT !.preservedLines = Append(@, line)]
        ELSE st

\* One iteration of the loop over the existing lines;
\* st = [preservedLines, currentlyInManagedSection, skipCurrentHost].
ScanLine(st, line, hs) ==
    LET trimmed == toLowerCase(trim(line))
        collides == SomeHostNamed(hs, HostNameOf(line))
    IN  IF IsSentinel(trimmed)
        THEN [st EXCEPT !.currentlyInManagedSection = TRUE]
        ELSE IF st.currentlyInManagedSection THEN st
        ELSE IF startsWith(trimmed, KwHostSp)
        THEN [st EXCEPT !.skipCurrentHost = collides,
                        !.preservedLines = IF collides THEN @ ELSE Append(@, line)]
        ELSE IF st.skipCurrentHost /\ IsManagedAttribute(trimmed)
        THEN st
        ELSE IF IsNewSection(trimmed)
        THEN [st EXCEPT !.skipCurrentHost = FALSE,
                        !.preservedLines =
                            IF ~startsWith(trimmed, KwHostSp) \/ ~collides
                            THEN Append(@, line) ELSE @]
        ELSE IF ~st.skipCurrentHost
        THEN [st EXCEPT !.preservedLines = Append(@, line)]
        ELSE st

RECURSIVE ScanLines(_, _, _, _)
ScanLines(lines, i, st, hs) ==
    IF i > Len(lines) THEN st
    ELSE ScanLines(lines, i + 1, ScanLine(st, lines[i], hs), hs)

\* StripTrailingEmpty that strips nothing.
StripNothing(preservedLines) == preservedLines

\* "Remove trailing empty lines from preserved content"
RECURSIVE StripTrailingEmpty(_)
StripTrailingEmpty(preservedLines) ==
    IF Len(preservedLines) > 0 /\ trim(preservedLines[Len(preservedLines)]) = <<>>
    THEN StripTrailingEmpty(SubSeq(preservedLines, 1, Len(preservedLines) - 1))
    ELSE preservedLines

\* The preserved lines of the existing content, after the scan and the strip.
PreservedLines(hs, existingContent) ==
    StripTrailingEmpty(
        ScanLines(split(existingContent), 1,
                  [preservedLines |-> <<>>,
                   currentlyInManagedSection |-> FALSE,
                   skipCurrentHost |-> FALSE], hs).preservedLines)

\* DisplayPath that writes every path as it is.
DisplayPathVerbatim(identityFile) == identityFile

\* "Convert absolute paths back to ~ notation if in home directory"
DisplayPath(identityFile) ==
    IF startsWith(identityFile, homedir)
    THEN replace(identityFile, homedir, <<"~">>)
    ELSE identityFile

\* HostStanza that writes the Port line for every port.
HostStanzaAlwaysPort(host) ==
    <<"H", "o", "s", "t", " ">> \o host.name \o <<"\n">>
    \o <<" ", " ", " ", " ", "H", "o", "s", "t", "N", "a", "m", "e", " ">> \o host.hostname \o <<"\n">>
    \o <<" ", " ", " ", " ", "U", "s", "e", "r", " ">> \o host.user \o <<"\n">>
    \o <<" ", " ", " ", " ", "P", "o", "r", "t", " ">> \o numberToString(host.port) \o <<"\n">>
    \o (IF Truthy(host.identityFile)
        THEN <<" ", " ", " ", " ", "I", "d", "e", "n", "t", "i", "t", "y", "F", "i", "l", "e", " ">> \o DisplayPath(host.identityFile) \o <<"\n">>
        ELSE <<>>)
    \o <<"\n">>

\* The lines one host contributes to the managed section.
HostStanza(host) ==
    <<"H", "o", "s", "t", " ">> \o host.name \o <<"\n">>
    \o <<" ", " ", " ", " ", "H", "o", "s", "t", "N", "a", "m", "e", " ">> \o host.hostname \o <<"\n">>
    \o <<" ", " ", " ", " ", "U", "s", "e", "r", " ">> \o host.user \o <<"\n">>
    \o (IF host.port # 22
        THEN <<" ", " ", " ", " ", "P", "o", "r", "t", " ">> \o numberToString(host.port) \o <<"\n">>
        ELSE <<>>)
    \o (IF Truthy(host.identityFile)
        THEN <<" ", " ", " ", " ", "I", "d", "e", "n", "t", "i", "t", "y", "F", "i", "l", "e", " ">> \o DisplayPath(host.identityFile) \o <<"\n">>
        ELSE <<>>)
    \o <<"\n">>

RECURSIVE HostStanzas(_)
HostStanzas(hs) ==
    IF Len(hs) = 0 THEN <<>> ELSE HostStanza(hs[1]) \o HostStanzas(Tail(hs))

BannerLine1 == <<"#", " ", "S", "S", "H", " ", "M", "a", "n", "a", "g", "e", "r", " ", "-", " ", "M", "a", "n", "a", "g", "e", "d", " ", "H", "o", "s", "t", "s">>
BannerLine2 == <<"#", " ", "D", "o", " ", "n", "o", "t", " ", "e", "d", "i", "t", " ", "t", "h", "i", "s", " ", "s", "e", "c", "t", "i", "o", "n", " ", "m", "a", "n", "u", "a", "l", "l", "y">>

\* ManagedSection that writes the banner for an empty host list too.
ManagedSectionAlways(hs) ==
    BannerLine1 \o <<"\n">> \o BannerLine2 \o <<"\n", "\n">> \o HostStanzas(hs)

\* "Add managed hosts section"
ManagedSection(hs) ==
    IF Len(hs) > 0
    THEN BannerLine1 \o <<"\n">> \o BannerLine2 \o <<"\n", "\n">> \o HostStanzas(hs)
    ELSE <<>>

generateSSHConfig(hs, existingContent) ==
    LET preservedLines == PreservedLines(hs, existingContent)
        config == IF Len(preservedLines) > 0
                  THEN join(preservedLines, <<"\n">>) \o <<"\n", "\n">>
                  ELSE <<>>
    IN  config \o ManagedSection(hs)

----------------------------------------------------------------------------
(* The application: the SSHConnections component and the two IPC handlers  *)

\* Most ssh:saveConnections calls in one run.
MaxSaves == 2

\* Largest value of the clock.
MaxClock == 2

\* The config file before the application starts.
FileAbsent == [exists |-> FALSE, content |-> <<>>]
FileWithManaged ==
    [exists |-> TRUE,
     content |-> <<"H", "o", "s", "t", " ", "*", "\n", " ", " ", "U", "s", "e", "r", " ", "u", "\n", "\n", "#", " ", "S", "S", "H", " ", "M", "a", "n", "a", "g", "e", "r", " ", "-", " ", "M", "a", "n", "a", "g", "e", "d", " ", "H", "o", "s", "t", "s", "\n", "#", " ", "D", "o", " ", "n", "o", "t", " ", "e", "d", "i", "t", " ", "t", "h", "i", "s", " ", "s", "e", "c", "t", "i", "o", "n", " ", "m", "a", "n", "u", "a", "l", "l", "y", "\n", "\n", "H", "o", "s", "t", " ", "a", "\n", " ", " ", " ", " ", "H", "o", "s", "t", "N", "a", "m", "e", " ", "h", "\n", " ", " ", " ", " ", "U", "s", "e", "r", " ", "u", "\n", "\n">>]
FileUnmanaged ==
    [exists |-> TRUE,
     content |-> <<"H", "o", "s", "t", " ", "b", "\n", " ", " ", "H", "o", "s", "t", "N", "a", "m", "e", " ", "h", "\n">>]

InitialFiles == {FileAbsent, FileWithManaged, FileUnmanaged}

\* What the user can have typed into the add form when pressing the button.
FormInput(name, hostname, user, port, identityFile) ==
    [name |-> name, hostname |-> hostname, user |-> user, port |-> port,
     identityFile |-> identityFile]

FormInputs ==
    { FormInput(<<"a">>, <<"h">>, <<"u">>, <<"2", "2", "2", "2">>, <<"~", "/", "k">>),
      FormInput(<<"*">>, <<"h">>, <<"u">>, <<"2", "2">>, <<>>),
      FormInput(<<>>, <<"h">>, <<"u">>, <<"2", "2">>, <<>>),
      FormInput(<<"c">>, <<"h">>, <<"u">>, <<"0">>, <<>>) }

\* The errors a file system call can fail with when the file is there.
IOErrors == {"EACCES"}

Success == [success |-> TRUE, error |-> ""]
Failure(message) == [success |-> FALSE, error |-> message]

\* A fresh ssh:loadConnections call: useEffect(() => { loadConnections() }, []);
\* success and connections are the fields of the handler's result, set when it
\* returns.
LoadStarted == [pc |-> "access", success |-> FALSE, connections |-> <<>>]

\* A fresh ssh:saveConnections call with its argument; existingContent and
\* newContent are the handler's locals, empty again once it has returned; readError
\* is the error the inner catch swallowed, wrote whether the call wrote the file,
\* alerted the message the component showed with alert() for this call.
SaveStarted(newConnections) ==
    [connections |-> newConnections, pc |-> "mkdir", existingContent |-> <<>>,
     newContent |-> <<>>, readError |-> "", wrote |-> FALSE, result |-> Success,
     alerted |-> ""]

\* The PortForwarding component as mounted: useState([]) for rules, no handler
\* running, no process spawned.
FwdIdle ==
    /\ rules = <<>>
    /\ forwards = <<>>
    /\ processes = {}
    /\ nextPid = 1

\* The application before the component is mounted; the state of the pure-function
\* specifications, which do not run the application.
AppIdle ==
    /\ FwdIdle
    /\ file = FileAbsent
    /\ connections = <<>>
    /\ isLoading = TRUE
    /\ isAddModalOpen = FALSE
    /\ load = LoadStarted
    /\ saves = <<>>
    /\ now = 1

\* The component right after its first mount: the useState initial values and the
\* mount effect's call of loadConnections.
Init ==
    /\ file \in InitialFiles
    /\ connections = <<>>
    /\ isLoading = TRUE
    /\ isAddModalOpen = FALSE
    /\ load = LoadStarted
    /\ saves = <<>>
    /\ now = 1
    /\ FwdIdle
    /\ content = <<>> /\ hosts = <<>> /\ fnpc = "init" /\ parsed = <<>>
    /\ generated = <<>> /\ regenerated = <<>> /\ reparsed = <<>>

\* LoadAccess whose handler passes the failure of readSSHConfigFile on.
LoadAccessPassesFailure ==
    /\ load.pc = "access"
    /\ \/ /\ file.exists
          /\ load' = [load EXCEPT !.pc = "read"]
       \/ /\ ~file.exists
          /\ load' = [load EXCEPT !.pc = "reply", !.success = FALSE,
                                  !.connections = <<>>]
       \/ /\ file.exists
          /\ \E e \in IOErrors :
                 load' = [load EXCEPT !.pc = "reply", !.success = FALSE,
                                      !.connections = <<>>]
    /\ UNCHANGED <<file, connections, isLoading, isAddModalOpen, saves, now>>
    /\ UNCHANGED <<fnvars, fwdvars>>

\* readSSHConfigFile: await fs.access(configPath, F_OK | R_OK); when it fails
\* the handler returns { success: true, connections: [] }.
LoadAccess ==
    /\ load.pc = "access"
    /\ \/ /\ file.exists
          /\ load' = [load EXCEPT !.pc = "read"]
       \/ /\ ~file.exists
          /\ load' = [load EXCEPT !.pc = "reply", !.success = TRUE,
                                  !.connections = <<>>]
       \/ /\ file.exists
          /\ \E e \in IOErrors :
                 load' = [load EXCEPT !.pc = "reply", !.success = TRUE,
                                      !.connections = <<>>]
    /\ UNCHANGED <<file, connections, isLoading, isAddModalOpen, saves, now>>
    /\ UNCHANGED <<fnvars, fwdvars>>

\* readSSHConfigFile: await fs.readFile(configPath, 'utf-8'), then the handler's
\* parseSSHConfig(readResult.content) and its return.
LoadRead ==
    /\ load.pc = "read"
    /\ \/ /\ file.exists
          /\ load' = [load EXCEPT !.pc = "reply", !.success = TRUE,
                                  !.connections = parseSSHConfig(file.content)]
       \/ /\ file.exists
          /\ \E e \in IOErrors :
                 load' = [load EXCEPT !.pc = "reply", !.success = TRUE,
                                      !.connections = <<>>]
    /\ UNCHANGED <<file, connections, isLoading, isAddModalOpen, saves, now>>
    /\ UNCHANGED <<fnvars, fwdvars>>

\* loadConnections in the component, after the await:
\* if (result.success) setConnections(result.connections), and finally
\* setIsLoading(false).
loadConnections ==
    /\ load.pc = "reply"
    /\ connections' = IF load.success THEN load.connections ELSE connections
    /\ isLoading' = FALSE
    /\ load' = [load EXCEPT !.pc = "done"]
    /\ UNCHANGED <<file, isAddModalOpen, saves, now>>
    /\ UNCHANGED <<fnvars, fwdvars>>

\* The add button: onClick={() => setIsAddModalOpen(true)}; it is not disabled
\* while isLoading.
OpenAddModal ==
    /\ ~isAddModalOpen
    /\ isAddModalOpen' = TRUE
    /\ UNCHANGED <<file, connections, isLoading, load, saves, now>>
    /\ UNCHANGED <<fnvars, fwdvars>>

\* The modal's cancel button: onClose.
CloseAddModal ==
    /\ isAddModalOpen
    /\ isAddModalOpen' = FALSE
    /\ UNCHANGED <<file, connections, isLoading, load, saves, now>>
    /\ UNCHANGED <<fnvars, fwdvars>>

\* handleAddConnection up to its await: the new connection gets the id
\* Date.now().toString(), setConnections, and the ssh:saveConnections call is made.
\* Date.now() returns the value it returned last or a later one.
handleAddConnection(connection) ==
    \E t \in now..MaxClock :
        LET newConnection ==
                SSHConfigHost(numberToString(t), connection.name, connection.hostname,
                              connection.user, connection.port, connection.identityFile)
            updatedConnections == Append(connections, newConnection)
        IN  /\ now' = t
            /\ connections' = updatedConnections
            /\ saves' = Append(saves, SaveStarted(updatedConnections))

\* AddConnectionModal.handleSubmit with the form holding f.
handleSubmit(f) ==
    /\ isAddModalOpen
    /\ Len(saves) < MaxSaves
    /\ LET portNum == parseInt(f.port)
       IN  IF ~Truthy(f.name) \/ ~Truthy(f.hostname) \/ ~Truthy(f.user)
           THEN \* alert(...); return
                UNCHANGED <<connections, saves, isAddModalOpen, now>>
           ELSE IF portNum.nan \/ portNum.val < 1 \/ portNum.val > 65535
           THEN \* alert(...); return
                UNCHANGED <<connections, saves, isAddModalOpen, now>>
           ELSE /\ handleAddConnection(
                       [name |-> f.name, hostname |-> f.hostname, user |-> f.user,
                        port |-> portNum.val,
                        identityFile |-> IF Truthy(f.identityFile) THEN f.identityFile
                                         ELSE Undefined])
                /\ isAddModalOpen' = FALSE
    /\ UNCHANGED <<file, isLoading, load>>
    /\ UNCHANGED <<fnvars, fwdvars>>

\* handleDeleteConnection(connectionId) with the confirm() accepted, up to its
\* await; the delete button is rendered for the listed connections only.
handleDeleteConnection(connectionId) ==
    /\ ~isLoading
    /\ Len(saves) < MaxSaves
    /\ \E k \in 1..Len(connections) : connections[k].id = connectionId
    /\ LET updatedConnections == SelectSeq(connections, LAMBDA c : c.id # connectionId)
       IN  /\ connections' = updatedConnections
           /\ saves' = Append(saves, SaveStarted(updatedConnections))
    /\ UNCHANGED <<file, isLoading, isAddModalOpen, load, now>>
    /\ UNCHANGED <<fnvars, fwdvars>>

\* ssh:saveConnections: await fs.mkdir(sshDir, { recursive: true })
SaveMkdir(i) ==
    /\ saves[i].pc = "mkdir"
    /\ \/ saves' = [saves EXCEPT ![i].pc = "read"]
       \/ \E e \in IOErrors :
              saves' = [saves EXCEPT ![i].pc = "reply", ![i].result = Failure(e)]
    /\ UNCHANGED <<file, connections, isLoading, isAddModalOpen, load, now>>
    /\ UNCHANGED <<fnvars, fwdvars>>

\* ssh:saveConnections: the inner try around await fs.readFile(configPath, 'utf-8'),
\* whose catch keeps existingContent = '' for every error, then generateSSHConfig.
SaveRead(i) ==
    /\ saves[i].pc = "read"
    /\ \E outcome \in (IF file.exists THEN {""} \cup IOErrors ELSE {"ENOENT"}) :
          LET existingContent == IF outcome = "" THEN file.content ELSE <<>>
          IN  saves' = [saves EXCEPT
                           ![i].pc = "write",
                           ![i].readError = outcome,
                           ![i].existingContent = existingContent,
                           ![i].newContent =
                               generateSSHConfig(saves[i].connections, existingContent)]
    /\ UNCHANGED <<file, connections, isLoading, isAddModalOpen, load, now>>
    /\ UNCHANGED <<fnvars, fwdvars>>

\* ssh:saveConnections: await fs.writeFile(configPath, newContent) and the return.
SaveWrite(i) ==
    /\ saves[i].pc = "write"
    /\ \/ /\ file' = [exists |-> TRUE, content |-> saves[i].newContent]
          /\ saves' = [saves EXCEPT ![i].pc = "reply", ![i].wrote = TRUE,
                                    ![i].existingContent = <<>>,
                                    ![i].newContent = <<>>,
                                    ![i].result = Success]
       \/ /\ \E e \in IOErrors :
                 saves' = [saves EXCEPT ![i].pc = "reply",
                                           ![i].existingContent = <<>>,
                                           ![i].newContent = <<>>,
                                           ![i].result = Failure(e)]
          /\ UNCHANGED file
    /\ UNCHANGED <<connections, isLoading, isAddModalOpen, load, now>>
    /\ UNCHANGED <<fnvars, fwdvars>>

\* saveConnections that shows no alert.
saveConnectionsSilent(i) ==
    /\ saves[i].pc = "reply"
    /\ saves' = [saves EXCEPT ![i].pc = "done"]
    /\ UNCHANGED <<file, connections, isLoading, isAddModalOpen, load, now>>
    /\ UNCHANGED <<fnvars, fwdvars>>

\* saveConnections in the component, after the await: alert on a failure result.
saveConnections(i) ==
    /\ saves[i].pc = "reply"
    /\ saves' = [saves EXCEPT ![i].pc = "done",
                              ![i].alerted = IF saves[i].result.success THEN ""
                                             ELSE saves[i].result.error]
    /\ UNCHANGED <<file, connections, isLoading, isAddModalOpen, load, now>>
    /\ UNCHANGED <<fnvars, fwdvars>>

\* The user leaves the connections tab and comes back: App renders a new
\* SSHConnections, with the initial state and the mount effect's load.
Remount ==
    /\ connections' = <<>>
    /\ isLoading' = TRUE
    /\ isAddModalOpen' = FALSE
    /\ load' = LoadStarted
    /\ UNCHANGED <<file, saves, now>>
    /\ UNCHANGED <<fnvars, fwdvars>>

Next ==
    \/ LoadAccess
    \/ LoadRead
    \/ loadConnections
    \/ OpenAddModal
    \/ CloseAddModal
    \/ \E f \in FormInputs : handleSubmit(f)
    \/ \E k \in 1..Len(connections) : handleDeleteConnection(connections[k].id)
    \/ \E i \in 1..Len(saves) : SaveMkdir(i)
    \/ \E i \in 1..Len(saves) : SaveRead(i)
    \/ \E i \in 1..Len(saves) : SaveWrite(i)
    \/ \E i \in 1..Len(saves) : saveConnections(i)
    \/ Remount

Spec == Init /\ [][Next]_vars

----------------------------------------------------------------------------
(* The application next to another writer of the config file               *)

\* The comment line another program writes into the unmanaged area.
EditLine == <<"#", "e">>

\* Some line of the text is the edit line.
HasEditLine(text) == \E i \in 1..Len(split(text)) : split(text)[i] = EditLine

\* The user's editor, not this program, saves the config file with EditLine put
\* in front of the unmanaged area.
ExternalEdit ==
    /\ file.exists
    /\ ~HasEditLine(file.content)
    /\ file' = [file EXCEPT !.content = EditLine \o <<"\n">> \o @]
    /\ UNCHANGED <<connections, isLoading, isAddModalOpen, load, saves, now>>
    /\ UNCHANGED <<fnvars, fwdvars>>

\* The component mounted once, its add form and delete buttons, the two
\* handlers, and the other writer.
NextEdit ==
    \/ LoadAccess
    \/ LoadRead
    \/ loadConnections
    \/ OpenAddModal
    \/ \E f \in FormInputs : handleSubmit(f)
    \/ \E k \in 1..Len(connections) : handleDeleteConnection(connections[k].id)
    \/ \E i \in 1..Len(saves) : SaveMkdir(i)
    \/ \E i \in 1..Len(saves) : SaveRead(i)
    \/ \E i \in 1..Len(saves) : SaveWrite(i)
    \/ \E i \in 1..Len(saves) : saveConnections(i)
    \/ ExternalEdit

SpecEdit == Init /\ [][NextEdit]_vars

----------------------------------------------------------------------------
(* The application with every file operation succeeding: the component     *)
(* mounted once and the user adding connections                            *)

\* Two forms the add form accepts, for hosts the config file does not have.
RaceFormInputs ==
    { FormInput(<<"c">>, <<"h">>, <<"u">>, <<"2", "2">>, <<>>),
      FormInput(<<"d">>, <<"h">>, <<"u">>, <<"2", "2">>, <<>>) }

\* fs.access succeeds when the file is there.
LoadAccessOk == LoadAccess /\ (load'.pc = "reply" => ~file.exists)

\* fs.readFile succeeds.
LoadReadOk == LoadRead /\ load'.connections = parseSSHConfig(file.content)

\* fs.mkdir succeeds.
SaveMkdirOk(i) == SaveMkdir(i) /\ saves'[i].pc = "read"

\* fs.readFile succeeds, or fails because the file is not there.
SaveReadOk(i) == SaveRead(i) /\ saves'[i].readError \in {"", "ENOENT"}

\* fs.writeFile succeeds.
SaveWriteOk(i) == SaveWrite(i) /\ saves'[i].wrote

NextRace ==
    \/ LoadAccessOk
    \/ LoadReadOk
    \/ loadConnections
    \/ OpenAddModal
    \/ \E f \in RaceFormInputs : handleSubmit(f)
    \/ \E i \in 1..Len(saves) : SaveMkdirOk(i)
    \/ \E i \in 1..Len(saves) : SaveReadOk(i)
    \/ \E i \in 1..Len(saves) : SaveWriteOk(i)
    \/ \E i \in 1..Len(saves) : saveConnections(i)

SpecRace == Init /\ [][NextRace]_vars

----------------------------------------------------------------------------
(* The application over a config file that names a host twice              *)

\* A hand-written config file with two stanzas for host b.
FileTwice ==
    [exists |-> TRUE,
     content |-> <<"H", "o", "s", "t", " ", "b", "\n", " ", " ", "H", "o", "s", "t", "N", "a", "m", "e", " ", "h", "\n", "H", "o", "s", "t", " ", "b", "\n", " ", " ", "H", "o", "s", "t", "N", "a", "m", "e", " ", "g", "\n">>]

\* The component right after its first mount, the config file being FileTwice.
InitIds ==
    /\ file = FileTwice
    /\ connections = <<>>
    /\ isLoading = TRUE
    /\ isAddModalOpen = FALSE
    /\ load = LoadStarted
    /\ saves = <<>>
    /\ now = 1
    /\ FwdIdle
    /\ content = <<>> /\ hosts = <<>> /\ fnpc = "init" /\ parsed = <<>>
    /\ generated = <<>> /\ regenerated = <<>> /\ reparsed = <<>>

SpecIds == InitIds /\ [][Next]_vars

----------------------------------------------------------------------------
(* Inputs of the pure functions                                            *)

\* Longest config text, in lines, given to parseSSHConfig.
MaxParseLines == 4

\* Longest existing content, in lines, given to generateSSHConfig.
MaxGenLines == 4

ParseLinePool ==
    { <<"H", "o", "s", "t", " ", "a">>,
      <<"H", "o", "s", "t", " ", "b">>,
      <<"H", "o", "s", "t", " ", "*">>,
      <<" ", "H", "o", "s", "t", "N", "a", "m", "e", " ", "h">>,
      <<"U", "s", "e", "r", " ", "u">>,
      <<"P", "o", "r", "t", " ", "0">>,
      <<"P", "o", "r", "t", " ", "7", "x">>,
      <<"P", "o", "r", "t", " ", "x">>,
      <<"I", "d", "e", "n", "t", "i", "t", "y", "F", "i", "l", "e", " ", "~", "/", "k">>,
      <<"H", "o", "s", "t">>,
      <<"#", "c">>,
      <<>> }

GenLinePool ==
    { <<"H", "o", "s", "t", " ", "a">>,
      <<"H", "o", "s", "t", " ", "b">>,
      <<" ", " ", "H", "o", "s", "t", "N", "a", "m", "e", " ", "h">>,
      <<" ", " ", "P", "r", "o", "x", "y", "J", "u", "m", "p", " ", "x">>,
      <<"U", "s", "e", "r", " ", "u">>,
      <<"#", "c">>,
      <<"#", " ", "S", "S", "H", " ", "M", "a", "n", "a", "g", "e", "r", " ", "-", " ", "M", "a", "n", "a", "g", "e", "d", " ", "H", "o", "s", "t", "s">>,
      <<>> }

\* The texts whose lines are drawn from pool, at most n of them.
TextsOver(pool, n) ==
    {join(ls, <<"\n">>) : ls \in UNION {[1..k -> pool] : k \in 0..n}}

ParseContents == TextsOver(ParseLinePool, MaxParseLines)
GenContents == TextsOver(GenLinePool, MaxGenLines)

HostA == SSHConfigHost(<<"a">>, <<"a">>, <<"h">>, <<"u">>, 22, Undefined)
HostB == SSHConfigHost(<<"b">>, <<"b">>, <<"h">>, <<"u">>, 2222, <<"/", "h", "/", "k">>)

GenHostSeqs == {<<>>, <<HostA>>, <<HostB>>, <<HostA, HostB>>, <<HostB, HostA>>}

----------------------------------------------------------------------------
(* The pure functions applied to bounded inputs                            *)

FnIdle ==
    /\ fnpc = "init"
    /\ parsed = <<>>
    /\ generated = <<>>
    /\ regenerated = <<>>
    /\ reparsed = <<>>

DoParse ==
    /\ fnpc = "init"
    /\ parsed' = parseSSHConfig(content)
    /\ fnpc' = "parsed"
    /\ UNCHANGED <<content, hosts, generated, regenerated, reparsed>>
    /\ UNCHANGED <<appvars, fwdvars>>

DoGenerate ==
    /\ fnpc = "init"
    /\ generated' = generateSSHConfig(hosts, content)
    /\ fnpc' = "generated"
    /\ UNCHANGED <<content, hosts, parsed, regenerated, reparsed>>
    /\ UNCHANGED <<appvars, fwdvars>>

DoRegenerate ==
    /\ fnpc = "generated"
    /\ regenerated' = generateSSHConfig(hosts, generated)
    /\ fnpc' = "regenerated"
    /\ UNCHANGED <<content, hosts, parsed, generated, reparsed>>
    /\ UNCHANGED <<appvars, fwdvars>>

DoParseGenerated ==
    /\ fnpc = "generated"
    /\ reparsed' = parseSSHConfig(generated)
    /\ fnpc' = "reparsed"
    /\ UNCHANGED <<content, hosts, parsed, generated, regenerated>>
    /\ UNCHANGED <<appvars, fwdvars>>

\* generateSSHConfig applied to what parseSSHConfig returned for the content, over
\* that content: a save of the loaded connections.
DoGenerateParsed ==
    /\ fnpc = "parsed"
    /\ generated' = generateSSHConfig(parsed, content)
    /\ fnpc' = "written"
    /\ UNCHANGED <<content, hosts, parsed, regenerated, reparsed>>
    /\ UNCHANGED <<appvars, fwdvars>>

\* parseSSHConfig applied to the text written by DoGenerateParsed: the next load.
DoParseWritten ==
    /\ fnpc = "written"
    /\ reparsed' = parseSSHConfig(generated)
    /\ fnpc' = "reloaded"
    /\ UNCHANGED <<content, hosts, parsed, generated, regenerated>>
    /\ UNCHANGED <<appvars, fwdvars>>

InitParse == content \in ParseContents /\ hosts = <<>> /\ FnIdle /\ AppIdle
NextParse == DoParse
SpecParse == InitParse /\ [][NextParse]_vars

InitGen == content \in GenContents /\ hosts \in GenHostSeqs /\ FnIdle /\ AppIdle
NextGen == DoGenerate \/ DoRegenerate
SpecGen == InitGen /\ [][NextGen]_vars

\* Most hosts in a host set given to generate and parsed back.
MaxRoundTripHosts == 2

\* Host entries with a literal name and every field as the add form accepts it.
RoundTripHosts ==
    {SSHConfigHost(n, n, <<"h">>, <<"u">>, p, f) :
        n \in {<<"a">>, <<"b">>},
        p \in {22, 2222},
        f \in {Undefined, <<"/", "h", "/", "k">>, <<"/", "h", "x", "/", "k">>, <<"~", "/", "k">>}}

\* The host sequences over RoundTripHosts with pairwise distinct names.
RoundTripHostSeqs ==
    {hs \in UNION {[1..k -> RoundTripHosts] : k \in 0..MaxRoundTripHosts} :
        \A j, k \in 1..Len(hs) : j # k => hs[j].name # hs[k].name}

InitRoundTrip == content = <<>> /\ hosts \in RoundTripHostSeqs /\ FnIdle /\ AppIdle
NextRoundTrip == DoGenerate \/ DoParseGenerated
SpecRoundTrip == InitRoundTrip /\ [][NextRoundTrip]_vars

\* Longest config text, in lines, given to parseSSHConfig when the order of its
\* result and its ignored lines are looked at.
MaxOrderLines == 4

\* Two Host lines, attribute lines, and the lines the parser ignores: a bare
\* 'Host' keyword, a comment, a blank line.
OrderLinePool ==
    { <<"H", "o", "s", "t", " ", "b">>,
      <<"H", "o", "s", "t", " ", "a">>,
      <<" ", "H", "o", "s", "t", "N", "a", "m", "e", " ", "h">>,
      <<"U", "s", "e", "r", " ", "u">>,
      <<"H", "o", "s", "t">>,
      <<"#", " ", "H", "o", "s", "t", " ", "c">>,
      <<>> }

OrderContents == TextsOver(OrderLinePool, MaxOrderLines)

InitOrder == content \in OrderContents /\ hosts = <<>> /\ FnIdle /\ AppIdle
NextOrder == DoParse
SpecOrder == InitOrder /\ [][NextOrder]_vars

\* Longest config text, in lines, loaded, saved as loaded and loaded again.
MaxStableLines == 4

\* Two Host lines, attribute lines and an indented line with another key.
StableLinePool ==
    { <<"H", "o", "s", "t", " ", "a">>,
      <<"H", "o", "s", "t", " ", "b">>,
      <<" ", " ", "H", "o", "s", "t", "N", "a", "m", "e", " ", "h">>,
      <<" ", " ", "P", "r", "o", "x", "y", "J", "u", "m", "p", " ", "x">>,
      <<" ", " ", "U", "s", "e", "r", " ", "u">> }

StableContents == TextsOver(StableLinePool, MaxStableLines)

InitStable == content \in StableContents /\ hosts = <<>> /\ FnIdle /\ AppIdle
NextStable == DoParse \/ DoGenerateParsed \/ DoParseWritten
SpecStable == InitStable /\ [][NextStable]_vars

\* Longest existing content, in lines, given to generateSSHConfig when its scan
\* and its managed section are looked at.
MaxScanLines == 4

\* A Host line, an indented and a non-indented attribute line, an indented line
\* with another key, the banner line and the blank line.
ScanLinePool ==
    { <<"H", "o", "s", "t", " ", "a">>,
      <<" ", " ", "H", "o", "s", "t", "N", "a", "m", "e", " ", "h">>,
      <<" ", " ", "P", "r", "o", "x", "y", "J", "u", "m", "p", " ", "x">>,
      <<"U", "s", "e", "r", " ", "u">>,
      <<"#", " ", "S", "S", "H", " ", "M", "a", "n", "a", "g", "e", "r", " ", "-", " ", "M", "a", "n", "a", "g", "e", "d", " ", "H", "o", "s", "t", "s">>,
      <<>> }

ScanContents == TextsOver(ScanLinePool, MaxScanLines)

InitScan == content \in ScanContents /\ hosts \in GenHostSeqs /\ FnIdle /\ AppIdle
NextScan == DoGenerate
SpecScan == InitScan /\ [][NextScan]_vars

\* Longest existing content, in lines, given to generateSSHConfig when the
\* collisions of Host lines are looked at.
MaxCollideLines == 3

\* Host lines that name host a or b with another case of the keyword or other
\* whitespace, Host lines with a name that is not a's, and lines to keep or drop.
CollideLinePool ==
    { <<"H", "o", "s", "t", " ", "a">>,
      <<"h", "o", "s", "t", " ", " ", "a", " ">>,
      <<"H", "o", "s", "t", " ", "A">>,
      <<"H", "o", "s", "t", " ", "a", "b">>,
      <<" ", "H", "o", "s", "t", " ", "b">>,
      <<" ", " ", "H", "o", "s", "t", "N", "a", "m", "e", " ", "h">>,
      <<"#", " ", "S", "S", "H", " ", "M", "a", "n", "a", "g", "e", "r", " ", "-", " ", "M", "a", "n", "a", "g", "e", "d", " ", "H", "o", "s", "t", "s">> }

CollideContents == TextsOver(CollideLinePool, MaxCollideLines)
CollideHostSeqs == {<<>>, <<HostA>>, <<HostA, HostB>>}

InitCollide == content \in CollideContents /\ hosts \in CollideHostSeqs /\ FnIdle /\ AppIdle
NextCollide == DoGenerate
SpecCollide == InitCollide /\ [][NextCollide]_vars

\* Longest config text, in lines, parsed and written again when the identity
\* file paths are looked at.
MaxHomeLines == 3

\* Host stanzas with identity files under the home directory in '~' notation,
\* and one outside it.
HomeLinePool ==
    { <<"H", "o", "s", "t", " ", "a">>,
      <<"H", "o", "s", "t", " ", "b">>,
      <<" ", "H", "o", "s", "t", "N", "a", "m", "e", " ", "h">>,
      <<" ", "I", "d", "e", "n", "t", "i", "t", "y", "F", "i", "l", "e", " ", "~", "/", ".", "s", "s", "h", "/", "i", "d", "_", "r", "s", "a">>,
      <<" ", "I", "d", "e", "n", "t", "i", "t", "y", "F", "i", "l", "e", " ", "~", "/", "h", "/", "k">>,
      <<" ", "I", "d", "e", "n", "t", "i", "t", "y", "F", "i", "l", "e", " ", "/", "e", "/", "k">> }

HomeContents == TextsOver(HomeLinePool, MaxHomeLines)

InitHome == content \in HomeContents /\ hosts = <<>> /\ FnIdle /\ AppIdle
NextHome == DoParse \/ DoGenerateParsed
SpecHome == InitHome /\ [][NextHome]_vars

----------------------------------------------------------------------------
(* The config text seen as stanzas, for stating the parser's properties    *)

\* A line the parser does not ignore: not blank, not a comment, a key and a value.
IsKeyValueLine(line) ==
    LET trimmed == trim(line)
    IN  /\ trimmed # <<>>
        /\ ~startsWith(trimmed, <<"#">>)
        /\ Len(splitWhitespace(trimmed)) >= 2

LineKey(line) == toLowerCase(splitWhitespace(trim(line))[1])
LineValue(line) == join(Tail(splitWhitespace(trim(line))), <<" ">>)

IsHostLine(line) == IsKeyValueLine(line) /\ LineKey(line) = <<"h", "o", "s", "t">>
IsLiteral(name) == ~includes(name, <<"*">>) /\ ~includes(name, <<"?">>)

HostLineIndices(lines) == {i \in 1..Len(lines) : IsHostLine(lines[i])}

\* The lines under the Host line i: up to the next Host line or the end.
StanzaOf(lines, i) ==
    LET hostLines == HostLineIndices(lines)
    IN  {j \in (i + 1)..Len(lines) : \A k \in (i + 1)..j : k \notin hostLines}

\* The lines of stanza i that set key.
AttributeLines(lines, i, key) ==
    {j \in StanzaOf(lines, i) : IsKeyValueLine(lines[j]) /\ LineKey(lines[j]) = key}

\* The value the stanza's last line for key gives (such a line exists).
LastValue(lines, i, key) == LineValue(lines[MaxOf(AttributeLines(lines, i, key))])

\* The Host lines with a literal name and a HostName value in their stanza.
Materialized(lines) ==
    {i \in HostLineIndices(lines) :
        /\ IsLiteral(LineValue(lines[i]))
        /\ AttributeLines(lines, i, <<"h", "o", "s", "t", "n", "a", "m", "e">>) # {}}

RECURSIVE SortedSeq(_)
SortedSeq(S) == IF S = {} THEN <<>> ELSE <<MinOf(S)>> \o SortedSeq(S \ {MinOf(S)})

\* The attribute lines standing under a wildcard Host line.
WildcardAttributeLines(lines) ==
    LET wild == {i \in HostLineIndices(lines) : ~IsLiteral(LineValue(lines[i]))}
    IN  UNION {StanzaOf(lines, i) : i \in wild}

\* lines without the lines at the indices in drop.
RECURSIVE WithoutLines(_, _, _)
WithoutLines(lines, drop, i) ==
    IF i > Len(lines) THEN <<>>
    ELSE (IF i \in drop THEN <<>> ELSE <<lines[i]>>) \o WithoutLines(lines, drop, i + 1)

----------------------------------------------------------------------------
(* Properties of parseSSHConfig, under SpecParse                           *)

\* C5: no two entries returned by parseSSHConfig have the same name (of several
\* Host lines with the same pattern only the last would be represented).
C5_NamesUnique ==
    fnpc = "parsed" =>
        \A j, k \in 1..Len(parsed) : j # k => parsed[j].name # parsed[k].name

\* C6: parseSSHConfig returns no entry whose name contains '*' or '?', and the
\* lines under a wildcard Host line change no entry: the result is the one the
\* text gives with those lines deleted.
C6_WildcardExclusion ==
    fnpc = "parsed" =>
        LET lines == split(content)
        IN  /\ \A k \in 1..Len(parsed) : IsLiteral(parsed[k].name)
            /\ parsed = parseSSHConfig(
                   join(WithoutLines(lines, WildcardAttributeLines(lines), 1), <<"\n">>))

\* A parse of a text where a wildcard Host line, with attribute lines under it,
\* stands between an entry and the next Host line.
C6_Witness ==
    /\ fnpc = "parsed"
    /\ LET lines == split(content)
       IN  \E i \in HostLineIndices(lines) :
               /\ ~IsLiteral(LineValue(lines[i]))
               /\ \E j \in StanzaOf(lines, i) : IsKeyValueLine(lines[j])
               /\ \E m \in Materialized(lines) : m < i

\* C9: user is the stanza's User value or "root"; port is the integer the Port
\* value parses to, and 22 only without a Port line or when the value does not
\* parse; identityFile is unset without an IdentityFile line.
C9_FieldDerivation ==
    fnpc = "parsed" =>
        LET lines == split(content)
            idx == SortedSeq(Materialized(lines))
        IN  /\ Len(parsed) = Len(idx)
            /\ \A k \in 1..Len(parsed) :
                 /\ parsed[k].user =
                        IF AttributeLines(lines, idx[k], <<"u", "s", "e", "r">>) = {} THEN <<"r", "o", "o", "t">>
                        ELSE LastValue(lines, idx[k], <<"u", "s", "e", "r">>)
                 /\ parsed[k].port =
                        IF AttributeLines(lines, idx[k], <<"p", "o", "r", "t">>) = {} THEN 22
                        ELSE IF parseInt(LastValue(lines, idx[k], <<"p", "o", "r", "t">>)).nan THEN 22
                        ELSE parseInt(LastValue(lines, idx[k], <<"p", "o", "r", "t">>)).val
                 /\ (AttributeLines(lines, idx[k], <<"i", "d", "e", "n", "t", "i", "t", "y", "f", "i", "l", "e">>) = {}
                        => parsed[k].identityFile = Undefined)

\* C10: parseSSHConfig returns one entry for each Host line that has a literal
\* name and a HostName value in its stanza, and for no other: a Host line
\* without a HostName line before the next Host line or the end gives none.
C10_Materialization ==
    fnpc = "parsed" =>
        LET lines == split(content)
            idx == SortedSeq(Materialized(lines))
        IN  /\ Len(parsed) = Len(idx)
            /\ \A k \in 1..Len(parsed) :
                 /\ parsed[k].name = LineValue(lines[idx[k]])
                 /\ parsed[k].hostname = LastValue(lines, idx[k], <<"h", "o", "s", "t", "n", "a", "m", "e">>)

\* A parse of a text with one Host line that gives an entry and one literal
\* Host line that gives none.
C10_Witness ==
    /\ fnpc = "parsed"
    /\ Len(parsed) > 0
    /\ LET lines == split(content)
       IN  \E i \in HostLineIndices(lines) :
               IsLiteral(LineValue(lines[i])) /\ i \notin Materialized(lines)

----------------------------------------------------------------------------
(* The existing content seen as stanzas, for stating the generator's       *)
(* properties                                                              *)

\* The first line that carries the managed sentinel; Len + 1 when none does.
FirstSentinel(lines) ==
    LET at == {i \in 1..Len(lines) : IsSentinel(toLowerCase(trim(lines[i])))}
    IN  IF at = {} THEN Len(lines) + 1 ELSE MinOf(at)

\* The Host lines whose name is the name of a host of hs.
CollidingHostLines(lines, hs) ==
    {i \in HostLineIndices(lines) : \E k \in 1..Len(hs) : hs[k].name = LineValue(lines[i])}

\* The lines before the sentinel and outside every colliding stanza (a colliding
\* Host line and the lines under it), in order.
OutsideLines(lines, hs) ==
    LET first == FirstSentinel(lines)
        colliding == CollidingHostLines(lines, hs)
        inside == colliding \cup UNION {StanzaOf(lines, c) : c \in colliding}
    IN  WithoutLines(lines, {i \in 1..Len(lines) : i >= first \/ i \in inside}, 1)

\* ls without the blank lines at its end.
DropTrailingBlank(ls) ==
    LET solid == {i \in 1..Len(ls) : trim(ls[i]) # <<>>}
    IN  IF solid = {} THEN <<>> ELSE SubSeq(ls, 1, MaxOf(solid))

\* a can be obtained from b by deleting elements.
RECURSIVE IsSubsequence(_, _)
IsSubsequence(a, b) ==
    IF Len(a) = 0 THEN TRUE
    ELSE IF Len(b) = 0 THEN FALSE
    ELSE IF a[1] = b[1] THEN IsSubsequence(Tail(a), Tail(b))
    ELSE IsSubsequence(a, Tail(b))

\* The lines of a generated text that stand before its managed banner.
UnmanagedPart(text) ==
    LET lines == split(text)
    IN  SubSeq(lines, 1, FirstSentinel(lines) - 1)

----------------------------------------------------------------------------
(* Properties of generateSSHConfig, under SpecGen                          *)

\* C2: saving the same hosts again over the generated text gives the same
\* text: generateSSHConfig(H, generateSSHConfig(H, X)) = generateSSHConfig(H, X).
C2_IdempotentResave ==
    fnpc = "regenerated" => regenerated = generated

\* A second save over a text that had a colliding stanza and lines to keep.
C2_Witness ==
    /\ fnpc = "regenerated"
    /\ Len(hosts) > 0
    /\ CollidingHostLines(split(content), hosts) # {}
    /\ Len(DropTrailingBlank(OutsideLines(split(content), hosts))) > 0
    /\ generated # content

\* C3 as stated: every line of X before the sentinel and outside the colliding
\* stanzas, blank lines included, appears in the output verbatim and in order.
C3_EveryLinePreserved ==
    fnpc = "generated" =>
        IsSubsequence(OutsideLines(split(content), hosts), split(generated))

\* C3 as amended: every line of X before the sentinel and outside the colliding
\* stanzas, except the blank lines that end this preserved content, appears
\* verbatim and in order in the output before the managed banner.
C3_NonDestructiveMerge ==
    fnpc = "generated" =>
        IsSubsequence(DropTrailingBlank(OutsideLines(split(content), hosts)),
                      UnmanagedPart(generated))

\* A merge that removed a colliding stanza and an old managed section and had
\* two lines to keep.
C3_Witness ==
    /\ fnpc = "generated"
    /\ CollidingHostLines(split(content), hosts) # {}
    /\ FirstSentinel(split(content)) <= Len(split(content))
    /\ Len(DropTrailingBlank(OutsideLines(split(content), hosts))) >= 2

----------------------------------------------------------------------------
(* Properties of generate followed by parse, under SpecRoundTrip           *)

\* C1: for hosts with unique literal names, parsing the text generated from H
\* and no existing content gives H back, as a set of
\* {name, hostname, user, port, identityFile} tuples.
C1_RoundTrip ==
    fnpc = "reparsed" =>
        {HostTuple(reparsed[k]) : k \in 1..Len(reparsed)}
            = {HostTuple(hosts[k]) : k \in 1..Len(hosts)}

\* The path is the home directory or lies under it.
InsideHome(path) == path = homedir \/ startsWith(path, homedir \o <<"/">>)

\* C8: an identityFile is written in '~' notation only when it is inside the
\* home directory; any other path, also one that has the home directory's
\* string as a prefix, is written unchanged.
C8_HomeCollapse ==
    fnpc = "generated" =>
        {l \in {split(generated)[i] : i \in 1..Len(split(generated))} :
            startsWith(l, <<" ", " ", " ", " ", "I", "d", "e", "n", "t", "i", "t", "y", "F", "i", "l", "e", " ">>)}
        = {<<" ", " ", " ", " ", "I", "d", "e", "n", "t", "i", "t", "y", "F", "i", "l", "e", " ">>
             \o (IF InsideHome(hosts[k].identityFile)
                 THEN <<"~">> \o substring(hosts[k].identityFile, Len(homedir))
                 ELSE hosts[k].identityFile) :
             k \in {j \in 1..Len(hosts) : Truthy(hosts[j].identityFile)}}

----------------------------------------------------------------------------
(* Properties of the application, under Spec                               *)

\* C4: ssh:saveConnections takes the existing content as empty only when the
\* config file does not exist; when reading it fails for another reason the
\* call returns a failure result and does not write the file.
C4_SaveSurfacesReadFailure ==
    \A i \in 1..Len(saves) :
        saves[i].readError \notin {"", "ENOENT"} =>
            /\ ~saves[i].wrote
            /\ (saves[i].pc \in {"reply", "done"} => ~saves[i].result.success)

\* C7: no connection in the component's working set, and none passed to
\* ssh:saveConnections, has a name containing '*' or '?'.
C7_LiteralNames ==
    /\ \A k \in 1..Len(connections) : IsLiteral(connections[k].name)
    /\ \A i \in 1..Len(saves) :
           \A k \in 1..Len(saves[i].connections) :
               IsLiteral(saves[i].connections[k].name)

----------------------------------------------------------------------------
(* Properties of generateSSHConfig's emission, under SpecScan              *)

\* The lines of the existing content before its first sentinel line.
BeforeSentinel(lines) == SubSeq(lines, 1, FirstSentinel(lines) - 1)

\* Some line of the text carries the managed sentinel.
HasSentinel(text) == FirstSentinel(split(text)) <= Len(split(text))

\* C11: with an empty host list the generated text has no line carrying the
\* managed banner, also when the existing content had one, and is exactly the
\* preserved content: the lines before the first sentinel without the blank lines
\* at their end, followed by the blank separator line, or nothing.
C11_EmptySetEmission ==
    (fnpc = "generated" /\ hosts = <<>>) =>
        LET kept == DropTrailingBlank(BeforeSentinel(split(content)))
        IN  /\ ~HasSentinel(generated)
            /\ generated = IF Len(kept) = 0 THEN <<>>
                           ELSE join(kept, <<"\n">>) \o <<"\n", "\n">>

\* An empty host list generated over a content that had lines to keep, then a
\* banner, then lines under the banner.
C11_Witness ==
    /\ fnpc = "generated"
    /\ hosts = <<>>
    /\ LET lines == split(content)
       IN  /\ Len(DropTrailingBlank(BeforeSentinel(lines))) > 0
           /\ FirstSentinel(lines) < Len(lines)
           /\ trim(lines[Len(lines)]) # <<>>

\* The lines of the generated text under its managed banner.
ManagedPart(text) ==
    SubSeq(split(text), FirstSentinel(split(text)) + 1, Len(split(text)))

\* The Host lines among lines that name host.
ManagedHostLines(lines, host) ==
    {i \in 1..Len(lines) : lines[i] = <<"H", "o", "s", "t", " ">> \o host.name}

\* The lines of the stanza at i that start with the indented Port key.
PortLines(lines, i) ==
    {lines[j] : j \in {m \in StanzaOf(lines, i) : startsWith(lines[m], <<" ", " ", " ", " ", "P", "o", "r", "t", " ">>)}}

\* C16: in the managed section the stanza of a host has an indented 'Port <n>'
\* line exactly when the host's port is not 22, and the line gives that port.
C16_PortOmission ==
    fnpc = "generated" =>
        LET lines == ManagedPart(generated)
        IN  \A k \in 1..Len(hosts) :
                /\ Cardinality(ManagedHostLines(lines, hosts[k])) = 1
                /\ \A i \in ManagedHostLines(lines, hosts[k]) :
                       PortLines(lines, i) =
                           IF hosts[k].port # 22
                           THEN {<<" ", " ", " ", " ", "P", "o", "r", "t", " ">> \o numberToString(hosts[k].port)}
                           ELSE {}

\* A generated text for a host with port 22 and a host with another port.
C16_Witness ==
    /\ fnpc = "generated"
    /\ \E j, k \in 1..Len(hosts) : hosts[j].port = 22 /\ hosts[k].port # 22

----------------------------------------------------------------------------
(* Properties of generateSSHConfig's scan, under SpecScan                  *)

\* The line is a Host line as the scan sees it.
StartsHost(line) == startsWith(toLowerCase(trim(line)), KwHostSp)

\* The line is a Host line that names a host of hs.
Collides(line, hs) == StartsHost(line) /\ SomeHostNamed(hs, HostNameOf(line))

IsBlank(line) == trim(line) = <<>>
IsIndented(line) == Len(line) > 0 /\ line[1] \in {" ", "\t"}

\* The line's case-folded trimmed text starts with hostname, user, port or
\* identityfile.
IsAttributeLine(line) == IsManagedAttribute(toLowerCase(trim(line)))

\* A line that starts a top-level section: a Host line, or a non-blank line that
\* does not start with a space or tab.
IsTopLevel(line) == StartsHost(line) \/ (~IsBlank(line) /\ ~IsIndented(line))

\* The indented attribute lines that stand under a colliding Host line with no
\* top-level line in between.
AttributesUnderCollision(lines, hs) ==
    {j \in 1..Len(lines) :
        /\ IsAttributeLine(lines[j])
        /\ \E c \in 1..(j - 1) :
               /\ Collides(lines[c], hs)
               /\ \A k \in (c + 1)..j : ~IsTopLevel(lines[k])}

\* C17: the skip flag set by a colliding Host line stays set across indented
\* and blank lines, so every indented hostname/user/port/identityfile line under
\* the colliding Host line, up to the next top-level line, is dropped: what the
\* output keeps is taken from the other lines only.
C17_SkipUntilTopLevel ==
    fnpc = "generated" =>
        LET lines == BeforeSentinel(split(content))
            dropped == AttributesUnderCollision(lines, hosts)
                           \cup {c \in 1..Len(lines) : Collides(lines[c], hosts)}
        IN  IsSubsequence(DropTrailingBlank(UnmanagedPart(generated)),
                          WithoutLines(lines, dropped, 1))

\* The skip flag is set when line j is met: a colliding Host line stands above
\* it and only attribute lines and blank lines stand between the two.
SkipSetAt(lines, hs, j) ==
    \E c \in 1..(j - 1) :
        /\ Collides(lines[c], hs)
        /\ \A k \in (c + 1)..(j - 1) :
               ~StartsHost(lines[k]) /\ (IsAttributeLine(lines[k]) \/ IsBlank(lines[k]))

\* The lines the scan drops: the colliding Host lines, and the attribute lines
\* and blank lines met while the skip flag is set.
DroppedLines(lines, hs) ==
    {j \in 1..Len(lines) :
        \/ Collides(lines[j], hs)
        \/ /\ ~StartsHost(lines[j])
           /\ IsAttributeLine(lines[j]) \/ IsBlank(lines[j])
           /\ SkipSetAt(lines, hs, j)}

\* The non-indented, non-blank lines that are not Host lines, in order.
TopLevelOtherLines(lines) ==
    SelectSeq(lines, LAMBDA l : IsTopLevel(l) /\ ~StartsHost(l))

----------------------------------------------------------------------------
(* Properties of the collision test, under SpecCollide                     *)

\* The Host lines of a text that name name: the remainder after 'host ',
\* trimmed, is exactly name.
HostLinesNaming(lines, name) ==
    {i \in 1..Len(lines) : StartsHost(lines[i]) /\ HostNameOf(lines[i]) = name}

\* C19: the Host lines the output keeps from the content before the sentinel
\* are those whose remainder after 'host ', trimmed, is not exactly the name of a
\* host of H, in their order; and each name of H stands on exactly one Host line
\* of the output, which is under the managed banner.
C19_CollisionByExactName ==
    fnpc = "generated" =>
        LET lines == BeforeSentinel(split(content))
            out == split(generated)
        IN  /\ SelectSeq(UnmanagedPart(generated), StartsHost)
                 = SelectSeq(lines,
                             LAMBDA l : /\ StartsHost(l)
                                        /\ \A k \in 1..Len(hosts) :
                                               hosts[k].name # HostNameOf(l))
            /\ \A k \in 1..Len(hosts) :
                   /\ Cardinality(HostLinesNaming(out, hosts[k].name)) = 1
                   /\ \A i \in HostLinesNaming(out, hosts[k].name) : i > FirstSentinel(out)

\* A merge over a content with a Host line naming a host of H in another
\* spelling of the line, and a Host line whose name differs from it by case.
C19_Witness ==
    /\ fnpc = "generated"
    /\ LET lines == BeforeSentinel(split(content))
       IN  /\ \E i \in 1..Len(lines) :
                  /\ Collides(lines[i], hosts)
                  /\ \A k \in 1..Len(hosts) : lines[i] # <<"H", "o", "s", "t", " ">> \o hosts[k].name
           /\ \E i \in 1..Len(lines) :
                  /\ StartsHost(lines[i]) /\ ~Collides(lines[i], hosts)
                  /\ \E k \in 1..Len(hosts) :
                         toLowerCase(HostNameOf(lines[i])) = toLowerCase(hosts[k].name)

----------------------------------------------------------------------------
(* Properties of the managed section, under SpecScan                       *)

\* The lines of a text that carry the managed sentinel.
SentinelLines(lines) == {i \in 1..Len(lines) : IsSentinel(toLowerCase(trim(lines[i])))}

\* C20: for a non-empty H the output has exactly one line carrying the managed
\* banner, and every line before it comes from the content before the first
\* sentinel; the lines of X at and after its first sentinel line do not count:
\* the output is the one that X cut before that line gives; and under the banner
\* stand the second banner line, a blank line and the stanzas of H, one Host line
\* per host, in H's order.
C20_ManagedSectionRegenerated ==
    (fnpc = "generated" /\ Len(hosts) > 0) =>
        LET lines == split(content)
            out == split(generated)
            under == ManagedPart(generated)
        IN  /\ Cardinality(SentinelLines(out)) = 1
            /\ out[FirstSentinel(out)] = BannerLine1
            /\ IsSubsequence(DropTrailingBlank(UnmanagedPart(generated)),
                             BeforeSentinel(lines))
            /\ generated = generateSSHConfig(hosts, join(BeforeSentinel(lines), <<"\n">>))
            /\ join(under, <<"\n">>) = BannerLine2 \o <<"\n", "\n">> \o HostStanzas(hosts)
            /\ SelectSeq(under, StartsHost)
                 = [k \in 1..Len(hosts) |-> <<"H", "o", "s", "t", " ">> \o hosts[k].name]

\* A merge for two hosts over a content with lines to keep, a sentinel line, and
\* a Host stanza of another host under it.
C20_Witness ==
    /\ fnpc = "generated"
    /\ Len(hosts) = 2
    /\ LET lines == split(content)
       IN  /\ HasSentinel(content)
           /\ Len(DropTrailingBlank(BeforeSentinel(lines))) > 0
           /\ \E i \in (FirstSentinel(lines) + 1)..Len(lines) :
                  ~IsBlank(lines[i]) /\ i \notin SentinelLines(lines)

----------------------------------------------------------------------------
(* Properties of parse followed by generate, under SpecHome                *)

\* The Host lines of lines, in order.
HostLineSeq(lines) == SortedSeq(HostLineIndices(lines))

\* The values of the IdentityFile lines in the stanza at i.
IdentityValues(lines, i) ==
    {LineValue(lines[j]) : j \in AttributeLines(lines, i, KwIdentityfile)}

\* C15: an IdentityFile value that starts with '~/', such as '~/.ssh/id_rsa',
\* is expanded by parseSSHConfig to the path under the home directory, and
\* generateSSHConfig writes the expanded path as the '~/' value again.
C15_HomePathRoundTrip ==
    fnpc = "written" =>
        LET lines == split(content)
            idx == SortedSeq(Materialized(lines))
            under == ManagedPart(generated)
            stanzas == HostLineSeq(under)
        IN  /\ Len(stanzas) = Len(parsed)
            /\ \A k \in 1..Len(parsed) :
                   (/\ AttributeLines(lines, idx[k], KwIdentityfile) # {}
                    /\ startsWith(LastValue(lines, idx[k], KwIdentityfile), <<"~", "/">>))
                   => /\ parsed[k].identityFile
                          = homedir \o substring(LastValue(lines, idx[k], KwIdentityfile), 1)
                      /\ IdentityValues(under, stanzas[k])
                          = {LastValue(lines, idx[k], KwIdentityfile)}

\* A text with the identity file '~/.ssh/id_rsa' parsed to the path under the
\* home directory and written again.
C15_Witness ==
    /\ fnpc = "written"
    /\ \E k \in 1..Len(parsed) :
           parsed[k].identityFile = homedir \o <<"/", ".", "s", "s", "h", "/", "i", "d", "_", "r", "s", "a">>

----------------------------------------------------------------------------
(* Properties of the two IPC handlers, under Spec                          *)

\* C13: a ssh:saveConnections call that has returned without writing the file
\* (fs.mkdir or fs.writeFile failed) has returned success = false with the
\* error's message, and once the component has handled the result it has shown
\* that message; a call that has returned success has written the file.
C13_FailedSaveReported ==
    \A i \in 1..Len(saves) :
        /\ (saves[i].pc \in {"reply", "done"} /\ ~saves[i].wrote)
               => (~saves[i].result.success /\ saves[i].result.error \in IOErrors)
        /\ (saves[i].pc \in {"reply", "done"} /\ saves[i].wrote)
               => saves[i].result.success
        /\ (saves[i].pc = "done" /\ ~saves[i].result.success)
               => saves[i].alerted = saves[i].result.error

\* A save that failed before its read and a save that failed at its write, both
\* handled by the component.
C13_Witness ==
    \E i, j \in 1..Len(saves) :
        /\ saves[i].pc = "done" /\ ~saves[i].result.success /\ saves[i].readError = ""
        /\ saves[j].pc = "done" /\ ~saves[j].result.success /\ saves[j].readError # ""

\* C14: ssh:loadConnections returns success = true in every case: with no
\* connections when the file is absent, with no connections or with
\* parseSSHConfig of the file's content when the file is there (no connections
\* being the result when it cannot be read).
C14_LoadNeverFails ==
    [][(load.pc \in {"access", "read"} /\ load'.pc = "reply")
          => /\ load'.success
             /\ ~file.exists => load'.connections = <<>>
             /\ file.exists => load'.connections \in {<<>>, parseSSHConfig(file.content)}]_vars

\* A load of a file that holds a host entry has returned success with no
\* connections, and no save has touched the file.
C14_Witness ==
    /\ load.pc = "reply"
    /\ load.success
    /\ load.connections = <<>>
    /\ saves = <<>>
    /\ file.exists /\ parseSSHConfig(file.content) # <<>>

----------------------------------------------------------------------------
(* Properties of a save next to another writer, under SpecEdit             *)

\* C12: a ssh:saveConnections call reads the file, generates from what the file
\* held at that read, and writes what it generated: an edit that is in the file
\* when the call reads it is in the content the call is going to write, and the
\* write puts exactly that content into the file, also over an edit made after
\* the read.
C12_SaveReReads ==
    [][\A i \in 1..Len(saves) :
          /\ (saves[i].pc = "read" /\ saves'[i].pc = "write")
                 => ((file.exists /\ HasEditLine(file.content))
                        => HasEditLine(saves'[i].newContent))
          /\ (saves[i].pc = "write" /\ saves'[i].wrote)
                 => file'.content = saves[i].newContent]_vars

----------------------------------------------------------------------------
(* Properties of parseSSHConfig's loop, under SpecOrder                    *)

\* C21: the entries parseSSHConfig returns stand in the order of their Host
\* lines in the text: their names are the names of the Host lines that give an
\* entry, read top to bottom.
C21_ParseOutputOrder ==
    fnpc = "parsed" =>
        LET lines == split(content)
            idx == SortedSeq(Materialized(lines))
        IN  [k \in 1..Len(parsed) |-> parsed[k].name]
                = [k \in 1..Len(idx) |-> LineValue(lines[idx[k]])]

\* A parse that returned host b before host a, as the text has them.
C21_Witness ==
    /\ fnpc = "parsed"
    /\ Len(parsed) = 2
    /\ parsed[1].name = <<"b">>
    /\ parsed[2].name = <<"a">>

\* The lines the parser ignores: blank, comment, or fewer than two tokens.
IgnoredLines(lines) == {i \in 1..Len(lines) : ~IsKeyValueLine(lines[i])}

\* C22: a blank line, a comment line and a line with fewer than two tokens,
\* also a bare 'Host' keyword, change neither the pending accumulator nor the
\* output: the text gives the result it gives with these lines deleted.
C22_IgnoredLinesChangeNothing ==
    fnpc = "parsed" =>
        LET lines == split(content)
        IN  parsed = parseSSHConfig(join(WithoutLines(lines, IgnoredLines(lines), 1), <<"\n">>))

\* A parse of a text with a bare 'Host' keyword between a Host line and its
\* HostName line, which returned the entry.
C22_Witness ==
    /\ fnpc = "parsed"
    /\ Len(parsed) > 0
    /\ LET lines == split(content)
       IN  \E i \in 1..Len(lines) :
               /\ trim(lines[i]) = <<"H", "o", "s", "t">>
               /\ i > 1 /\ IsHostLine(lines[i - 1])
               /\ i < Len(lines) /\ IsKeyValueLine(lines[i + 1])
               /\ LineKey(lines[i + 1]) = KwHostname

----------------------------------------------------------------------------
(* Properties of the component's saves, under SpecRace                     *)

\* The text from its first sentinel line on; empty when it has none.
ManagedText(text) ==
    IF HasSentinel(text)
    THEN join(SubSeq(split(text), FirstSentinel(split(text)), Len(split(text))), <<"\n">>)
    ELSE <<>>

\* The hosts, as {name, hostname, user, port, identityFile} tuples, that the
\* text has under its managed banner.
ManagedHostsOf(text) ==
    LET hs == parseSSHConfig(ManagedText(text))
    IN  {HostTuple(hs[k]) : k \in 1..Len(hs)}

\* The hosts of the whole text.
HostsOf(text) ==
    LET hs == parseSSHConfig(text)
    IN  {HostTuple(hs[k]) : k \in 1..Len(hs)}

\* C23: with every file operation succeeding and the user deleting nothing, no
\* step takes a host of the file's managed section out of the file; so the hosts
\* managed at startup are in the file after every interleaving of the mount-time
\* load and the adds, also after an add made before the load has returned.
C23_NoManagedHostLost ==
    [][ManagedHostsOf(file.content) \subseteq HostsOf(file'.content)]_vars

\* C24: when two ssh:saveConnections calls have both returned, the file's
\* managed section is the one generated from the later call's connection list,
\* however their steps interleaved.
C24_LatestSaveWins ==
    (/\ Len(saves) = 2
     /\ \A i \in 1..2 : saves[i].pc = "done" /\ saves[i].wrote)
        => ManagedText(file.content) = ManagedSection(saves[2].connections)

----------------------------------------------------------------------------
(* Properties of what the scan leaves behind, under SpecScan and SpecStable *)

\* The Host line that line j of lines stands under; NoOwner when no Host line
\* stands above it.
NoOwner == <<"no Host line">>
Owner(lines, j) ==
    LET above == {i \in 1..(j - 1) : StartsHost(lines[i])}
    IN  IF above = {} THEN NoOwner ELSE lines[MaxOf(above)]

\* The indented lines that are not blank and not Host lines.
OptionLines(lines) ==
    {j \in 1..Len(lines) :
        IsIndented(lines[j]) /\ ~IsBlank(lines[j]) /\ ~StartsHost(lines[j])}

\* C25: every indented option line in the unmanaged part of the output stands
\* under the Host line it stood under in X: X has the same line, before its
\* sentinel, under an equal Host line, or at the top when the output has it at
\* the top.
C25_NoReparenting ==
    fnpc = "generated" =>
        LET lines == BeforeSentinel(split(content))
            out == UnmanagedPart(generated)
        IN  \A m \in OptionLines(out) :
                \E j \in OptionLines(lines) :
                    lines[j] = out[m] /\ Owner(lines, j) = Owner(out, m)

\* The sequence as a multiset of {name, hostname, user, port, identityFile}
\* tuples: how often each tuple occurs.
TupleCount(hs, tuple) == Cardinality({k \in 1..Len(hs) : HostTuple(hs[k]) = tuple})
SameMultiset(a, b) ==
    \A tuple \in {HostTuple(a[k]) : k \in 1..Len(a)} \cup {HostTuple(b[k]) : k \in 1..Len(b)} :
        TupleCount(a, tuple) = TupleCount(b, tuple)

\* C26: saving what was loaded does not change what is loaded next:
\* parseSSHConfig(generateSSHConfig(parseSSHConfig(X), X)) is parseSSHConfig(X)
\* as a multiset of host tuples.
C26_LoadThenSaveStable ==
    fnpc = "reloaded" => SameMultiset(reparsed, parsed)

----------------------------------------------------------------------------
(* The PortForwarding component and ssh:startPortForward                    *)

MaxRules == 2
MaxForwards == 3

\* pid?: number of a rule that has none.
NoPid == 0

\* A start or stop call of a handler: rule is the rule the button was rendered
\* with, pc the step the handler is at, success and pid the result it awaited.
ForwardStarted(kind, rule) ==
    [kind |-> kind, rule |-> rule, pc |-> "exec", success |-> FALSE, pid |-> NoPid]

\* handleAddRule: the rule gets Date.now().toString() as id and status 'inactive'.
handleAddRule ==
    /\ Len(rules) < MaxRules
    /\ \E t \in now..MaxClock :
        /\ now' = t
        /\ rules' = Append(rules, [id |-> numberToString(t), status |-> "inactive",
                                   pid |-> NoPid])
    /\ UNCHANGED <<file, connections, isLoading, isAddModalOpen, load, saves>>
    /\ UNCHANGED <<forwards, processes, nextPid>>
    /\ UNCHANGED fnvars

\* handleStartForwarding up to its await: the start button is rendered for a rule
\* whose status is 'inactive', and the click calls ssh:startPortForward.
handleStartForwarding(k) ==
    /\ Len(forwards) < MaxForwards
    /\ rules[k].status = "inactive"
    /\ forwards' = Append(forwards, ForwardStarted("start", rules[k]))
    /\ UNCHANGED <<rules, processes, nextPid>>
    /\ UNCHANGED <<fnvars, appvars>>

\* ssh:startPortForward: exec(command) spawns the process and the handler
\* returns its pid, or exec throws and the handler returns success: false.
startPortForward(i) ==
    /\ forwards[i].kind = "start"
    /\ forwards[i].pc = "exec"
    /\ \/ /\ processes' = processes \cup {nextPid}
          /\ nextPid' = nextPid + 1
          /\ forwards' = [forwards EXCEPT ![i].pc = "reply", ![i].success = TRUE,
                                          ![i].pid = nextPid]
       \/ /\ forwards' = [forwards EXCEPT ![i].pc = "reply"]
          /\ UNCHANGED <<processes, nextPid>>
    /\ UNCHANGED rules
    /\ UNCHANGED <<fnvars, appvars>>

\* handleStartForwarding after its await: on success every rule of the current
\* state with the id of the started rule becomes 'active' with the returned pid.
StartReply(i) ==
    /\ forwards[i].kind = "start"
    /\ forwards[i].pc = "reply"
    /\ forwards' = [forwards EXCEPT ![i].pc = "done"]
    /\ rules' = IF forwards[i].success
                THEN [k \in 1..Len(rules) |->
                        IF rules[k].id = forwards[i].rule.id
                        THEN [rules[k] EXCEPT !.status = "active", !.pid = forwards[i].pid]
                        ELSE rules[k]]
                ELSE rules
    /\ UNCHANGED <<processes, nextPid>>
    /\ UNCHANGED <<fnvars, appvars>>

\* handleStopForwarding up to its await: the stop button is rendered for a rule
\* whose status is not 'inactive'; without a pid the handler does nothing.
handleStopForwarding(k) ==
    /\ Len(forwards) < MaxForwards
    /\ rules[k].status # "inactive"
    /\ rules[k].pid # NoPid
    /\ forwards' = Append(forwards, ForwardStarted("stop", rules[k]))
    /\ UNCHANGED <<rules, processes, nextPid>>
    /\ UNCHANGED <<fnvars, appvars>>

\* exec(`kill ${rule.pid}`): the process ends, or the command fails (no such
\* process, or no child_process in the renderer) and the promise rejects.
StopKill(i) ==
    /\ forwards[i].kind = "stop"
    /\ forwards[i].pc = "exec"
    /\ \/ /\ forwards[i].rule.pid \in processes
          /\ processes' = processes \ {forwards[i].rule.pid}
          /\ forwards' = [forwards EXCEPT ![i].pc = "reply", ![i].success = TRUE]
       \/ /\ forwards' = [forwards EXCEPT ![i].pc = "reply"]
          /\ UNCHANGED processes
    /\ UNCHANGED <<rules, nextPid>>
    /\ UNCHANGED <<fnvars, appvars>>

\* handleStopForwarding after its await: on success every rule of the current
\* state with the id of the stopped rule becomes 'inactive' without a pid.
StopReply(i) ==
    /\ forwards[i].kind = "stop"
    /\ forwards[i].pc = "reply"
    /\ forwards' = [forwards EXCEPT ![i].pc = "done"]
    /\ rules' = IF forwards[i].success
                THEN [k \in 1..Len(rules) |->
                        IF rules[k].id = forwards[i].rule.id
                        THEN [rules[k] EXCEPT !.status = "inactive", !.pid = NoPid]
                        ELSE rules[k]]
                ELSE rules
    /\ UNCHANGED <<processes, nextPid>>
    /\ UNCHANGED <<fnvars, appvars>>

\* handleDeleteRule, the confirm() accepted: the rules with the id are filtered
\* out; the delete button is rendered for every rule.
handleDeleteRule(k) ==
    /\ rules' = SelectSeq(rules, LAMBDA r : r.id # rules[k].id)
    /\ UNCHANGED <<forwards, processes, nextPid>>
    /\ UNCHANGED <<fnvars, appvars>>

NextForward ==
    \/ handleAddRule
    \/ \E k \in 1..Len(rules) : handleStartForwarding(k)
    \/ \E i \in 1..Len(forwards) : startPortForward(i)
    \/ \E i \in 1..Len(forwards) : StartReply(i)
    \/ \E k \in 1..Len(rules) : handleStopForwarding(k)
    \/ \E i \in 1..Len(forwards) : StopKill(i)
    \/ \E i \in 1..Len(forwards) : StopReply(i)
    \/ \E k \in 1..Len(rules) : handleDeleteRule(k)

\* The PortForwarding tab alone: the SSHConnections component is not mounted.
InitForward == content = <<>> /\ hosts = <<>> /\ FnIdle /\ AppIdle

SpecForward == InitForward /\ [][NextForward]_vars

----------------------------------------------------------------------------
(* Properties of the component's working set, under SpecIds                *)

\* C27: the ids of the connections in the component's working set are
\* pairwise distinct, so that handleDeleteConnection's filter on the id removes
\* the one connection the user chose.
C27_IdsUnique ==
    \A j, k \in 1..Len(connections) :
        j # k => connections[j].id # connections[k].id

----------------------------------------------------------------------------
(* Properties of the PortForwarding component, under SpecForward           *)

\* The active rules that record the pid.
RulesRecording(pid) ==
    {k \in 1..Len(rules) : rules[k].status = "active" /\ rules[k].pid = pid}

\* No start or stop handler is between its call and its setRules.
ForwardsSettled == \A i \in 1..Len(forwards) : forwards[i].pc = "done"

\* C28: once the handlers have run to their end, no process the application
\* started and has not killed is left without a rule that refers to it: its pid
\* is recorded in a rule whose status is 'active'.
C28_EveryProcessTracked ==
    ForwardsSettled => \A pid \in processes : RulesRecording(pid) # {}

====
